---- MODULE Spec2Model ----
(***************************************************************************)
(* A model of the badge-league bot: the ELO rating engine (utils/elo.py),  *)
(* the rank table (constants.py) and the command handlers of the package   *)
(* badge_league_bot, which read and write one shared SQLite connection     *)
(* (database/db.py).                                                       *)
(*                                                                         *)
(* Ratings are binary floating-point numbers in the program (Python float, *)
(* SQLite REAL).  The model keeps the structure of that arithmetic in a    *)
(* reduced format: a number is an integer count of quanta of 2^-FracBits,  *)
(* and the result of every arithmetic operation is rounded to Prec         *)
(* significant bits, ties to even.  Numbers smaller than 2^(Prec-FracBits) *)
(* are exact multiples of the quantum (the subnormal range of the format). *)
(***************************************************************************)
EXTENDS Integers, Sequences, FiniteSets, TLC

VARIABLES
    players,        \* table players: discord_id -> row, as the connection sees it
    leagues,        \* table leagues: sequence of league names, league_id = index
    league_players, \* table league_players: <<league_id, player_id>> -> row
    matches,        \* table matches: sequence of rows, match_id = index
    disk,           \* the committed contents of the four tables
    reply,          \* the last command and the message it sent to the invoking user
    failures,       \* number of store failures injected so far
    probe           \* arguments and result of a pure function under test

vars == <<players, leagues, league_players, matches, disk, reply, failures, probe>>

-----------------------------------------------------------------------------
(* Floating-point arithmetic in the reduced format.                        *)

FracBits == 14
Prec == 16
Unit == 2 ^ FracBits

Abs(v) == IF v < 0 THEN 0 - v ELSE v

\* n / d for n >= 0, d > 0, rounded to the nearest integer, ties to even
RoundDivPos(n, d) ==
    LET q == n \div d
        r == n % d
    IN  IF 2 * r > d \/ (2 * r = d /\ q % 2 = 1) THEN q + 1 ELSE q

RoundDiv(n, d) == IF n < 0 THEN 0 - RoundDivPos(0 - n, d) ELSE RoundDivPos(n, d)

\* the spacing of representable numbers around magnitude a
RECURSIVE Quantum(_)
Quantum(a) == IF a < 2 ^ Prec THEN 1 ELSE 2 * Quantum(a \div 2)

\* rounding of an exact result to the format
RoundF(v) == Quantum(Abs(v)) * RoundDiv(v, Quantum(Abs(v)))

FAdd(a, b) == RoundF(a + b)
FSub(a, b) == RoundF(a - b)
\* k * a and a / k for an integer literal k of the program text
FMulInt(k, a) == RoundF(k * a)
FDivInt(a, k) == RoundF(RoundDiv(a, k))
\* a / b for two numbers of the format, a below 2^(31 - 2 * FracBits)
FDiv(a, b) == RoundF(RoundDiv(a * Unit, b))

\* 10 ** (-(2^(j-17))), in units of 2^-24, for j = 1 .. 19
PowTable24 ==
    << 16776627, 16776037, 16774858, 16772501, 16767787, 16758364,
       16739533, 16701934, 16626990, 16478110, 16184336, 15612408,
       14528471, 12581137, 9434522, 5305422, 1677722, 167772,
       1678 >>

\* 10 ** (-(2^(j-1)) / Unit), in quanta, for j = 1 .. FracBits + 3
PowTable ==
    [j \in 1..(FracBits + 3) |->
        RoundDivPos(PowTable24[j + 16 - FracBits], 2 ^ (24 - FracBits))]

\* 10 ** (-n / Unit) for an integer n >= 0: the product, over the one bits of
\* n, of the table's powers
RECURSIVE PowNeg(_, _)
PowNeg(n, j) ==
    IF n = 0 THEN Unit
    ELSE IF j > Len(PowTable) THEN 0
    ELSE IF n % 2 = 1
         THEN RoundDiv(PowTable[j] * PowNeg(n \div 2, j + 1), Unit)
         ELSE PowNeg(n \div 2, j + 1)

\* 10 ** x, for x above -2^Len(PowTable) / Unit and small enough for the
\* result to fit the format (the rating differences of the model are far
\* inside both limits)
Pow10(x) ==
    IF x <= 0 THEN PowNeg(0 - x, 1)
    ELSE RoundF(RoundDiv(Unit * Unit, PowNeg(x, 1)))

-----------------------------------------------------------------------------
(* constants.py                                                            *)

K_FACTOR == 32
INITIAL_ELO == 1000
Inf == 2000000000

RankNames ==
    << "Iron", "Bronze", "Silver", "Gold", "Platinum", "Diamond", "Master",
       "Grandmaster" >>

\* RANKS: rank name -> (min_elo, max_elo), in the order of the dict
RANKS ==
    << <<0, 899 * Unit>>, <<900 * Unit, 1199 * Unit>>,
       <<1200 * Unit, 1499 * Unit>>, <<1500 * Unit, 1799 * Unit>>,
       <<1800 * Unit, 2099 * Unit>>, <<2100 * Unit, 2399 * Unit>>,
       <<2400 * Unit, 2699 * Unit>>, <<2700 * Unit, Inf>> >>

-----------------------------------------------------------------------------
(* utils/elo.py                                                            *)

One == Unit

\* calculate_elo_change with the loser's change taken from the winner's
\* expected score
calculate_elo_change_unbalanced(winner_elo, loser_elo) ==
    LET p == Pow10(FDivInt(FSub(loser_elo, winner_elo), 400))
        expected_winner == FDiv(One, FAdd(One, p))
        winner_change == FMulInt(K_FACTOR, FSub(One, expected_winner))
        loser_change == FMulInt(K_FACTOR, FSub(0, expected_winner))
    IN  <<winner_change, loser_change>>

\* calculate_elo_change with the two ratings exchanged in the exponent
calculate_elo_change_swapped(winner_elo, loser_elo) ==
    LET p == Pow10(FDivInt(FSub(winner_elo, loser_elo), 400))
        expected_winner == FDiv(One, FAdd(One, p))
        expected_loser == FSub(One, expected_winner)
        winner_change == FMulInt(K_FACTOR, FSub(One, expected_winner))
        loser_change == FMulInt(K_FACTOR, FSub(0, expected_loser))
    IN  <<winner_change, loser_change>>

calculate_elo_change(winner_elo, loser_elo) ==
    LET p == Pow10(FDivInt(FSub(loser_elo, winner_elo), 400))
        expected_winner == FDiv(One, FAdd(One, p))
        expected_loser == FSub(One, expected_winner)
        winner_change == FMulInt(K_FACTOR, FSub(One, expected_winner))
        loser_change == FMulInt(K_FACTOR, FSub(0, expected_loser))
    IN  <<winner_change, loser_change>>

\* the first rank, in table order, whose inclusive range holds elo
RECURSIVE RankFrom(_, _)
RankFrom(elo, i) ==
    IF i > Len(RANKS) THEN "Unranked"
    ELSE IF RANKS[i][1] <= elo /\ elo <= RANKS[i][2] THEN RankNames[i]
    ELSE RankFrom(elo, i + 1)

get_rank(elo) == RankFrom(elo, 1)

-----------------------------------------------------------------------------
(* The inputs of the commands.                                             *)

Users == {1, 2}                    \* Discord user ids
PlayerNames == {"ann", "bob"}      \* player_name arguments
LeagueNames == {"L"}               \* league_name arguments
Times == {"2024-01-01 15:00"}      \* time arguments
Results == {"win", "loss"}         \* Literal["win", "loss"]
None == "None"                     \* league_name left out
MaxMatches == 2                    \* rows the matches table may hold
MaxFailures == 1                   \* store failures injected in one run

-----------------------------------------------------------------------------
(* database/db.py: the schema and the shared connection.                   *)

NULL == 0                          \* a NULL id (ids start at 1)
NullTime == "NULL"                 \* a NULL scheduled_time

\* a new row of players: wins, losses and elo_rating take their defaults
NewPlayer(player_name) ==
    [player_name |-> player_name, wins |-> 0, losses |-> 0,
     elo_rating |-> INITIAL_ELO * Unit]

\* a new row of league_players: the three counters take their defaults
NewLeaguePlayer ==
    [league_elo |-> INITIAL_ELO * Unit, league_wins |-> 0, league_losses |-> 0]

\* a new row of matches; status defaults to pending
NewMatch(p1, p2, time, status, winner, league) ==
    [player1_id |-> p1, player2_id |-> p2, scheduled_time |-> time,
     status |-> status, winner_id |-> winner, league_id |-> league]

Tables(pl, lg, lp, ma) ==
    [players |-> pl, leagues |-> lg, league_players |-> lp, matches |-> ma]

\* what the connection sees: the committed rows and its own open transaction
View == Tables(players, leagues, league_players, matches)

\* SELECT league_id FROM leagues WHERE league_name = ?
LeagueId(lg, name) ==
    IF \E i \in 1..Len(lg) : lg[i] = name
    THEN CHOOSE i \in 1..Len(lg) : lg[i] = name
    ELSE NULL

-----------------------------------------------------------------------------
(* utils/error_handler.py: the message for an exception.                   *)

UniqueFailed == "This record already exists."
ConstraintFailed == "Database constraint violation."
OperationalError ==
    "Database operation failed. The database might be locked or corrupted."

\* the reply to a command: handle_command_error's message, or the handler's own
Reply(cmd, msg) == [cmd |-> cmd, msg |-> msg]

NoProbe == <<>>

\* A handler's statements run on the shared connection.  `fail` = 0: none of them
\* raises.  `fail` = i > 0: the i-th of its writing statements (the commit
\* counted last) raises sqlite3.OperationalError; the statements before it have
\* run, nothing is committed and nothing is rolled back.
Done(fail, n) == IF fail = 0 THEN n ELSE fail - 1

\* the end of a handler whose statements wrote `after` and which then called
\* conn.commit(), unless statement `fail` raised first
Finish(fail, n, after, cmd, msg) ==
    /\ fail \in 0..(n + 1)
    /\ fail > 0 => failures < MaxFailures
    /\ players' = after.players
    /\ leagues' = after.leagues
    /\ league_players' = after.league_players
    /\ matches' = after.matches
    /\ disk' = IF fail = 0 THEN after ELSE disk
    /\ failures' = IF fail = 0 THEN failures ELSE failures + 1
    /\ reply' = Reply(cmd, IF fail = 0 THEN msg ELSE OperationalError)
    /\ UNCHANGED probe

\* the end of a handler that wrote nothing and did not commit
Refuse(cmd, msg) ==
    /\ reply' = Reply(cmd, msg)
    /\ UNCHANGED <<players, leagues, league_players, matches, disk, failures, probe>>

-----------------------------------------------------------------------------
(* commands/player_commands.py                                             *)

\* Register as INSERT OR REPLACE: a second registration overwrites the row
RegisterOrReplace(user, player_name, fail) ==
    Finish(fail, 1,
           IF Done(fail, 1) >= 1
           THEN [View EXCEPT !.players =
                   (user :> NewPlayer(player_name)) @@ @]
           ELSE View,
           "register", "Successfully registered")

Register(user, player_name, fail) ==
    IF user \in DOMAIN players
        THEN fail = 0 /\ Refuse("register", UniqueFailed)
        ELSE Finish(fail, 1,
                    IF Done(fail, 1) >= 1
                    THEN [View EXCEPT !.players = @ @@ (user :> NewPlayer(player_name))]
                    ELSE View,
                    "register", "Successfully registered")

-----------------------------------------------------------------------------
(* commands/league_commands.py                                             *)

MustRegister == "You must register first"
NoSuchLeague == "League does not exist!"

\* CreateLeague on a table leagues whose league_name is not UNIQUE
CreateLeagueAnyName(user, league_name, fail) ==
    LET league_id == Len(leagues) + 1
        w1 == [View EXCEPT !.leagues = Append(@, league_name)]
        w2 == [w1 EXCEPT !.league_players = @ @@ (<<league_id, user>> :> NewLeaguePlayer)]
        k == Done(fail, 2)
    IN  IF user \notin DOMAIN players
        THEN fail = 0 /\ Refuse("create_league", MustRegister)
        ELSE /\ Len(leagues) < 2
             /\ Finish(fail, 2, IF k >= 2 THEN w2 ELSE IF k >= 1 THEN w1 ELSE View,
                       "create_league", "Successfully created league")

\* CreateLeague without its second INSERT: the creator is not made a member
CreateLeagueNoMember(user, league_name, fail) ==
    IF user \notin DOMAIN players
        THEN fail = 0 /\ Refuse("create_league", MustRegister)
        ELSE IF LeagueId(leagues, league_name) # NULL
        THEN fail = 0 /\ Refuse("create_league", UniqueFailed)
        ELSE Finish(fail, 1,
                    IF Done(fail, 1) >= 1
                    THEN [View EXCEPT !.leagues = Append(@, league_name)]
                    ELSE View,
                    "create_league", "Successfully created league")

CreateLeague(user, league_name, fail) ==
    LET league_id == Len(leagues) + 1                      \* cursor.lastrowid
        w1 == [View EXCEPT !.leagues = Append(@, league_name)]
        w2 == [w1 EXCEPT !.league_players = @ @@ (<<league_id, user>> :> NewLeaguePlayer)]
        k == Done(fail, 2)
    IN  IF user \notin DOMAIN players
        THEN fail = 0 /\ Refuse("create_league", MustRegister)
        ELSE IF LeagueId(leagues, league_name) # NULL
        THEN fail = 0 /\ Refuse("create_league", UniqueFailed)
        ELSE Finish(fail, 2, IF k >= 2 THEN w2 ELSE IF k >= 1 THEN w1 ELSE View,
                    "create_league", "Successfully created league")

\* JoinLeague that creates the league when no league has the name
JoinLeagueOrCreate(user, league_name, fail) ==
    LET league_id == LeagueId(leagues, league_name)
        w1 == [View EXCEPT !.league_players = @ @@ (<<league_id, user>> :> NewLeaguePlayer)]
    IN  IF league_id = NULL
        THEN Finish(fail, 1,
                    IF Done(fail, 1) >= 1
                    THEN [View EXCEPT !.leagues = Append(@, league_name)] ELSE View,
                    "join_league", "Successfully joined league")
        ELSE IF user \notin DOMAIN players
        THEN fail = 0 /\ Refuse("join_league", MustRegister)
        ELSE IF <<league_id, user>> \in DOMAIN league_players
        THEN fail = 0 /\ Refuse("join_league", UniqueFailed)
        ELSE Finish(fail, 1, IF Done(fail, 1) >= 1 THEN w1 ELSE View,
                    "join_league", "Successfully joined league")

\* JoinLeague as INSERT OR REPLACE: joining again puts a new row in the place of
\* the old one
JoinLeagueOrReplace(user, league_name, fail) ==
    LET league_id == LeagueId(leagues, league_name)
        w1 == [View EXCEPT !.league_players = (<<league_id, user>> :> NewLeaguePlayer) @@ @]
    IN  IF league_id = NULL
        THEN fail = 0 /\ Refuse("join_league", NoSuchLeague)
        ELSE IF user \notin DOMAIN players
        THEN fail = 0 /\ Refuse("join_league", MustRegister)
        ELSE Finish(fail, 1, IF Done(fail, 1) >= 1 THEN w1 ELSE View,
                    "join_league", "Successfully joined league")

JoinLeague(user, league_name, fail) ==
    LET league_id == LeagueId(leagues, league_name)
        w1 == [View EXCEPT !.league_players = @ @@ (<<league_id, user>> :> NewLeaguePlayer)]
    IN  IF league_id = NULL
        THEN fail = 0 /\ Refuse("join_league", NoSuchLeague)
        ELSE IF user \notin DOMAIN players
        THEN fail = 0 /\ Refuse("join_league", MustRegister)
        ELSE IF <<league_id, user>> \in DOMAIN league_players
        THEN fail = 0 /\ Refuse("join_league", UniqueFailed)
        ELSE Finish(fail, 1, IF Done(fail, 1) >= 1 THEN w1 ELSE View,
                    "join_league", "Successfully joined league")

-----------------------------------------------------------------------------
(* commands/match_commands.py                                              *)

OpponentNotRegistered == "opponent is not registered!"
OpponentMustRegister == "opponent must register first"
NotMember == "You are not a member of league"
OpponentNotMember == "opponent is not a member of league"

\* Schedule on a connection that does not enforce foreign keys
ScheduleNoForeignKeys(user, opponent, time, fail) ==
    LET w1 == [View EXCEPT !.matches =
                 Append(@, NewMatch(user, opponent, time, "pending", NULL, NULL))]
    IN  IF opponent \notin DOMAIN players
        THEN fail = 0 /\ Refuse("schedule", OpponentNotRegistered)
        ELSE /\ Len(matches) < MaxMatches
             /\ Finish(fail, 1, IF Done(fail, 1) >= 1 THEN w1 ELSE View,
                       "schedule", "Match scheduled")

Schedule(user, opponent, time, fail) ==
    LET w1 == [View EXCEPT !.matches =
                 Append(@, NewMatch(user, opponent, time, "pending", NULL, NULL))]
    IN  IF opponent \notin DOMAIN players
        THEN fail = 0 /\ Refuse("schedule", OpponentNotRegistered)
        ELSE IF user \notin DOMAIN players     \* FOREIGN KEY (player1_id)
        THEN fail = 0 /\ Refuse("schedule", ConstraintFailed)
        ELSE /\ Len(matches) < MaxMatches
             /\ Finish(fail, 1, IF Done(fail, 1) >= 1 THEN w1 ELSE View,
                       "schedule", "Match scheduled")

\* UPDATE players SET wins = wins + 1, elo_rating = elo_rating + ? WHERE discord_id = ?
UpdateWinner(pl, id, change) ==
    [pl EXCEPT ![id] = [@ EXCEPT !.wins = @ + 1,
                                 !.elo_rating = FAdd(@, change)]]

\* UpdateLoser counting the defeat as a win
UpdateLoserAsWin(pl, id, change) ==
    [pl EXCEPT ![id] = [@ EXCEPT !.wins = @ + 1,
                                 !.elo_rating = FAdd(@, change)]]

\* UPDATE players SET losses = losses + 1, elo_rating = elo_rating + ? WHERE discord_id = ?
UpdateLoser(pl, id, change) ==
    [pl EXCEPT ![id] = [@ EXCEPT !.losses = @ + 1,
                                 !.elo_rating = FAdd(@, change)]]

\* UpdateLeagueWinner taking the change from the league ratings' point of view:
\* half of K_FACTOR, whatever the global ratings are
UpdateLeagueWinnerFlat(lp, league_id, id, change) ==
    [lp EXCEPT ![<<league_id, id>>] = [@ EXCEPT !.league_wins = @ + 1,
                                                !.league_elo = FAdd(@, (K_FACTOR \div 2) * Unit)]]

\* UPDATE league_players SET league_wins = league_wins + 1, league_elo = league_elo + ? ...
UpdateLeagueWinner(lp, league_id, id, change) ==
    [lp EXCEPT ![<<league_id, id>>] = [@ EXCEPT !.league_wins = @ + 1,
                                                !.league_elo = FAdd(@, change)]]

\* UpdateLeagueLoser without `league_id = ?` in its WHERE: the rows of the
\* loser in every league are updated
UpdateLeagueLoserEveryLeague(lp, league_id, id, change) ==
    [key \in DOMAIN lp |->
        IF key[2] = id
        THEN [lp[key] EXCEPT !.league_losses = @ + 1, !.league_elo = FAdd(@, change)]
        ELSE lp[key]]

\* UPDATE league_players SET league_losses = league_losses + 1, league_elo = league_elo + ? ...
UpdateLeagueLoser(lp, league_id, id, change) ==
    [lp EXCEPT ![<<league_id, id>>] = [@ EXCEPT !.league_losses = @ + 1,
                                                !.league_elo = FAdd(@, change)]]

\* ReportWrites that, without a league named, updates the rows of the first
\* league both players are members of
ReportWritesAnyLeague(k, user, opponent, winner_id, loser_id, change, league_id) ==
    LET lg == IF league_id # NULL THEN league_id
              ELSE IF {<<1, winner_id>>, <<1, loser_id>>} \subseteq DOMAIN league_players
              THEN 1 ELSE NULL
        n == IF league_id # NULL THEN 5 ELSE 3
        pl1 == UpdateWinner(players, winner_id, change[1])
        pl2 == UpdateLoser(pl1, loser_id, change[2])
        lp1 == UpdateLeagueWinner(league_players, lg, winner_id, change[1])
        lp2 == UpdateLeagueLoser(lp1, lg, loser_id, change[2])
        ma1 == Append(matches,
                      NewMatch(user, opponent, NullTime, "completed", winner_id, league_id))
    IN  Tables(IF k >= 2 THEN pl2 ELSE IF k >= 1 THEN pl1 ELSE players,
               leagues,
               IF lg = NULL \/ k < n THEN league_players ELSE lp2,
               IF k >= n THEN ma1 ELSE matches)

\* ReportWrites that records the result in the last row of matches when that
\* row is a match of the same two players, whatever its status
ReportWritesLastRow(k, user, opponent, winner_id, loser_id, change, league_id) ==
    LET n == IF league_id # NULL THEN 5 ELSE 3
        last == Len(matches)
        row == NewMatch(user, opponent, NullTime, "completed", winner_id, league_id)
        pl1 == UpdateWinner(players, winner_id, change[1])
        pl2 == UpdateLoser(pl1, loser_id, change[2])
        lp1 == UpdateLeagueWinner(league_players, league_id, winner_id, change[1])
        lp2 == UpdateLeagueLoser(lp1, league_id, loser_id, change[2])
        ma1 == IF last > 0 /\ {matches[last].player1_id, matches[last].player2_id}
                                  = {user, opponent}
               THEN [matches EXCEPT ![last] = row]
               ELSE Append(matches, row)
    IN  Tables(IF k >= 2 THEN pl2 ELSE IF k >= 1 THEN pl1 ELSE players,
               leagues,
               IF league_id = NULL THEN league_players
               ELSE IF k >= 4 THEN lp2 ELSE IF k >= 3 THEN lp1 ELSE league_players,
               IF k >= n THEN ma1 ELSE matches)

\* the tables after the first k writing statements of a report
ReportWrites(k, user, opponent, winner_id, loser_id, change, league_id) ==
    LET n == IF league_id # NULL THEN 5 ELSE 3
        pl1 == UpdateWinner(players, winner_id, change[1])
        pl2 == UpdateLoser(pl1, loser_id, change[2])
        lp1 == UpdateLeagueWinner(league_players, league_id, winner_id, change[1])
        lp2 == UpdateLeagueLoser(lp1, league_id, loser_id, change[2])
        ma1 == Append(matches,
                      NewMatch(user, opponent, NullTime, "completed", winner_id, league_id))
    IN  Tables(IF k >= 2 THEN pl2 ELSE IF k >= 1 THEN pl1 ELSE players,
               leagues,
               IF league_id = NULL THEN league_players
               ELSE IF k >= 4 THEN lp2 ELSE IF k >= 3 THEN lp1 ELSE league_players,
               IF k >= n THEN ma1 ELSE matches)

NoError == ""

\* ReportError without the check of the opponent: the handler then fails on
\* player2[0] with a TypeError
ReportErrorUncheckedOpponent(user, opponent, league_name) ==
    LET league_id == LeagueId(leagues, league_name)
    IN  IF user \notin DOMAIN players THEN MustRegister
        ELSE IF opponent \notin DOMAIN players
             THEN "An unexpected error occurred: 'NoneType' object is not subscriptable"
        ELSE IF league_name = None THEN NoError
        ELSE IF league_id = NULL THEN NoSuchLeague
        ELSE IF <<league_id, user>> \notin DOMAIN league_players THEN NotMember
        ELSE IF <<league_id, opponent>> \notin DOMAIN league_players
             THEN OpponentNotMember
        ELSE NoError

\* ReportError without the check of the opponent's membership
ReportErrorUncheckedMember(user, opponent, league_name) ==
    LET league_id == LeagueId(leagues, league_name)
    IN  IF user \notin DOMAIN players THEN MustRegister
        ELSE IF opponent \notin DOMAIN players THEN OpponentMustRegister
        ELSE IF league_name = None THEN NoError
        ELSE IF league_id = NULL THEN NoSuchLeague
        ELSE IF <<league_id, user>> \notin DOMAIN league_players THEN NotMember
        ELSE NoError

\* the checks of a report, in order: the message of the ValueError raised, or
\* NoError when both players are registered and, with a league named, members
ReportError(user, opponent, league_name) ==
    LET league_id == LeagueId(leagues, league_name)
    IN  IF user \notin DOMAIN players THEN MustRegister
        ELSE IF opponent \notin DOMAIN players THEN OpponentMustRegister
        ELSE IF league_name = None THEN NoError
        ELSE IF league_id = NULL THEN NoSuchLeague
        ELSE IF <<league_id, user>> \notin DOMAIN league_players THEN NotMember
        ELSE IF <<league_id, opponent>> \notin DOMAIN league_players
             THEN OpponentNotMember
        ELSE NoError

Report(user, opponent, result, league_name, fail) ==
    LET league_id == IF league_name # None THEN LeagueId(leagues, league_name) ELSE NULL
        winner_id == IF result = "win" THEN user ELSE opponent
        loser_id == IF result = "win" THEN opponent ELSE user
        change == calculate_elo_change(players[winner_id].elo_rating,
                                       players[loser_id].elo_rating)
        n == IF league_id # NULL THEN 5 ELSE 3
    IN  IF ReportError(user, opponent, league_name) # NoError
        THEN fail = 0 /\ Refuse("report", ReportError(user, opponent, league_name))
        ELSE /\ Len(matches) < MaxMatches
             /\ Finish(fail, n,
                       ReportWrites(Done(fail, n), user, opponent, winner_id, loser_id,
                                    change, league_id),
                       "report", "Match result recorded!")

-----------------------------------------------------------------------------
(* The process ends and a new one opens the database (Database.close, then  *)
(* Database.__init__): the open transaction is lost.                       *)

Restart ==
    /\ View # disk
    /\ players' = disk.players
    /\ leagues' = disk.leagues
    /\ league_players' = disk.league_players
    /\ matches' = disk.matches
    /\ reply' = Reply("", "")
    /\ UNCHANGED <<disk, failures, probe>>

-----------------------------------------------------------------------------
(* The bot: commands arrive one at a time, in any order, from any user.    *)

NoTable == <<>>

\* the store after Database.setup_database: four empty tables, committed
InitStore ==
    /\ players = NoTable
    /\ leagues = <<>>
    /\ league_players = NoTable
    /\ matches = <<>>
    /\ disk = Tables(NoTable, <<>>, NoTable, <<>>)
    /\ reply = Reply("", "")
    /\ failures = 0

Init == InitStore /\ probe = NoProbe

Command(fail) ==
    \/ \E u \in Users, n \in PlayerNames : Register(u, n, fail)
    \/ \E u \in Users, l \in LeagueNames : CreateLeague(u, l, fail)
    \/ \E u \in Users, l \in LeagueNames : JoinLeague(u, l, fail)
    \/ \E u \in Users, o \in Users, t \in Times : Schedule(u, o, t, fail)
    \/ \E u \in Users, o \in Users, res \in Results, l \in LeagueNames \cup {None} :
          Report(u, o, res, l, fail)

\* no statement fails
Next == Command(0)

Spec == Init /\ [][Next]_vars

\* statements may fail, and the process may be restarted
NextF ==
    \/ \E fail \in 0..6 : Command(fail)
    \/ Restart

SpecF == Init /\ [][NextF]_vars

-----------------------------------------------------------------------------
(* The commands that only read: standings, schedule_table, list_leagues,    *)
(* league_standings.  Each replies with a table, with a message saying that *)
(* there is nothing to list, or with handle_command_error's message.       *)

TableSent == "table"               \* the reply is a table; its rows are in reply.rows

\* the reply of a command that sent a table
Table(cmd, rows) == [cmd |-> cmd, msg |-> TableSent, rows |-> rows]

\* the end of a handler that sent a table
Show(cmd, rows) ==
    /\ reply' = Table(cmd, rows)
    /\ UNCHANGED <<players, leagues, league_players, matches, disk, failures, probe>>

\* the orders in which a SELECT may return the rows with the keys `ids`
Orders(ids) ==
    {s \in [1..Cardinality(ids) -> ids] : \A i, j \in DOMAIN s : s[i] = s[j] => i = j}

\* handle_command_error's message for an exception that is no sqlite3 error
Unexpected(text) == "An unexpected error occurred: " \o text

\* the names bound at the top of commands/player_commands.py
PlayerCommandsNames ==
    {"app_commands", "Interaction", "command_decorator", "db",
     "handle_command_error", "get_rank"}

\* the names bound at the top of commands/league_commands.py
LeagueCommandsNames ==
    {"app_commands", "Interaction", "logging", "command_decorator", "db",
     "handle_command_error", "get_rank", "RANKS", "RANK_EMOJIS", "logger"}

NoPlayers == "No players registered yet!"
RanksUndefined == Unexpected("name 'RANKS' is not defined")

\* a row of the standings table
StandingsRow(id) ==
    [player_name |-> players[id].player_name, wins |-> players[id].wins,
     losses |-> players[id].losses, elo_rating |-> players[id].elo_rating,
     rank |-> get_rank(players[id].elo_rating)]

\* SELECT ... FROM players ORDER BY elo_rating DESC
StandingsOrders ==
    {s \in Orders(DOMAIN players) :
        \A i \in 1..(Len(s) - 1) :
            players[s[i]].elo_rating >= players[s[i + 1]].elo_rating}

\* standings: the table is built, then the rank explanation reads RANKS
Standings ==
    IF DOMAIN players = {}
        THEN Refuse("standings", NoPlayers)
        ELSE IF "RANKS" \notin PlayerCommandsNames
        THEN Refuse("standings", RanksUndefined)
        ELSE \E s \in StandingsOrders :
                Show("standings", [i \in DOMAIN s |-> StandingsRow(s[i])])

NoMatches == "No matches scheduled!"
NoneFormat == Unexpected("unsupported format string passed to NoneType.__format__")

\* the matches whose two players have a row of players (the two JOINs)
JoinedMatches ==
    {k \in 1..Len(matches) :
        {matches[k].player1_id, matches[k].player2_id} \subseteq DOMAIN players}

\* a row of the schedule table
ScheduleRow(k) ==
    [player1 |-> players[matches[k].player1_id].player_name,
     player2 |-> players[matches[k].player2_id].player_name,
     scheduled_time |-> matches[k].scheduled_time,
     status |-> matches[k].status]

\* ORDER BY m.scheduled_time ASC: the NULLs come first (all times of Times
\* are equal)
ScheduleOrders ==
    {s \in Orders(JoinedMatches) :
        \A i \in 1..(Len(s) - 1) :
            matches[s[i + 1]].scheduled_time = NullTime
                => matches[s[i]].scheduled_time = NullTime}

\* schedule_table: f"{time:<15}" raises TypeError when time is None
ScheduleTable ==
    IF JoinedMatches = {}
        THEN Refuse("schedule_table", NoMatches)
        ELSE IF \E k \in JoinedMatches : matches[k].scheduled_time = NullTime
        THEN Refuse("schedule_table", NoneFormat)
        ELSE \E s \in ScheduleOrders :
                Show("schedule_table", [i \in DOMAIN s |-> ScheduleRow(s[i])])

NoLeagues == "No leagues exist yet! Create one using /create_league"
NoPlayersFound == "No players found in league!"

TwoLeagues == {"L", "M"}           \* league_name arguments, where two are needed
NameOrder == [n \in TwoLeagues |-> IF n = "L" THEN 1 ELSE 2]   \* ORDER BY league_name

\* COUNT(*) in place of COUNT(lp.player_id): the row that the LEFT JOIN keeps
\* for a league without members is counted
MemberCountRows(league_id) ==
    IF \E key \in DOMAIN league_players : key[1] = league_id
    THEN Cardinality({key \in DOMAIN league_players : key[1] = league_id})
    ELSE 1

\* COUNT(lp.player_id) of the LEFT JOIN, grouped by league
MemberCount(league_id) ==
    Cardinality({key \in DOMAIN league_players : key[1] = league_id})

ListRow(league_id) ==
    [league_name |-> leagues[league_id], count |-> MemberCount(league_id)]

\* ... GROUP BY l.league_id, l.league_name ORDER BY l.league_name
ListOrders ==
    {s \in Orders(DOMAIN leagues) :
        \A i \in 1..(Len(s) - 1) :
            NameOrder[leagues[s[i]]] <= NameOrder[leagues[s[i + 1]]]}

ListLeagues ==
    IF leagues = <<>>
        THEN Refuse("list_leagues", NoLeagues)
        ELSE \E s \in ListOrders :
                Show("list_leagues", [i \in DOMAIN s |-> ListRow(s[i])])

\* the members of a league that have a row of players (JOIN players)
JoinedMembers(league_id) ==
    {id \in DOMAIN players : <<league_id, id>> \in DOMAIN league_players}

LeagueStandingsRow(league_id, id) ==
    [player_name |-> players[id].player_name,
     league_wins |-> league_players[<<league_id, id>>].league_wins,
     league_losses |-> league_players[<<league_id, id>>].league_losses,
     league_elo |-> league_players[<<league_id, id>>].league_elo,
     rank |-> get_rank(league_players[<<league_id, id>>].league_elo)]

\* ... WHERE l.league_name = ? ORDER BY lp.league_elo DESC
LeagueStandingsOrders(league_id) ==
    {s \in Orders(JoinedMembers(league_id)) :
        \A i \in 1..(Len(s) - 1) :
            league_players[<<league_id, s[i]>>].league_elo
                >= league_players[<<league_id, s[i + 1]>>].league_elo}

\* league_standings: the league is looked up first, then its members
LeagueStandings(league_name) ==
    LET league_id == LeagueId(leagues, league_name)
    IN  IF league_id = NULL
        THEN Refuse("league_standings", NoSuchLeague)
        ELSE IF JoinedMembers(league_id) = {}
        THEN Refuse("league_standings", NoPlayersFound)
        ELSE IF "RANKS" \notin LeagueCommandsNames
        THEN Refuse("league_standings", RanksUndefined)
        ELSE \E s \in LeagueStandingsOrders(league_id) :
                Show("league_standings",
                     [i \in DOMAIN s |-> LeagueStandingsRow(league_id, s[i])])

\* the commands of Spec and the commands that only read
NextQ ==
    \/ Next
    \/ Standings
    \/ ScheduleTable
    \/ ListLeagues
    \/ \E l \in LeagueNames : LeagueStandings(l)

SpecQ == Init /\ [][NextQ]_vars

\* the commands on leagues, with two league names, failing statements and
\* restarts; no matches are scheduled or reported
NextL ==
    \/ \E fail \in 0..3 :
          \/ \E u \in Users, n \in PlayerNames : Register(u, n, fail)
          \/ \E u \in Users, l \in TwoLeagues : CreateLeague(u, l, fail)
          \/ \E u \in Users, l \in TwoLeagues : JoinLeague(u, l, fail)
    \/ ListLeagues
    \/ \E l \in TwoLeagues : LeagueStandings(l)
    \/ Restart

SpecL == Init /\ [][NextL]_vars

-----------------------------------------------------------------------------
(* Two report commands in flight.  discord.py runs every invocation as a    *)
(* task of one event loop: a task runs until its next await, and the loop   *)
(* then resumes any task that is ready.  report awaits once, when it sends  *)
(* its message: after conn.commit(), or in its except branch.  `probe`      *)
(* holds the tasks: where each one is, its arguments and its local          *)
(* variables, and the tables as they were when the first of them started.   *)

Tasks == {1, 2}

Idle == [pc |-> "idle", user |-> 0, opponent |-> 0, result |-> "", change |-> <<0, 0>>,
         msg |-> ""]

InFlight(t) == probe.task[t].pc \in {"start", "write", "send"}
Quiet == \A t \in Tasks : ~InFlight(t)

InitTasks == InitStore /\ probe = [base |-> View, task |-> [t \in Tasks |-> Idle]]

\* a user invokes report (without league_name): a task is created for the call.
\* The ended tasks are forgotten when no task is in flight.
Invoke(t, user, opponent, result) ==
    /\ Quiet \/ probe.task[t].pc = "idle"
    /\ Len(matches) + Cardinality({s \in Tasks : InFlight(s)}) < MaxMatches
    /\ probe' =
          [base |-> IF Quiet THEN View ELSE probe.base,
           task |-> [s \in Tasks |->
                        IF s = t
                        THEN [Idle EXCEPT !.pc = "start", !.user = user,
                                          !.opponent = opponent, !.result = result]
                        ELSE IF Quiet THEN Idle ELSE probe.task[s]]]
    /\ UNCHANGED <<players, leagues, league_players, matches, disk, reply, failures>>

\* the statements of report from the first SELECT to its await
ReportRun(t, change) ==
    LET a == probe.task[t]
        winner_id == IF a.result = "win" THEN a.user ELSE a.opponent
        loser_id == IF a.result = "win" THEN a.opponent ELSE a.user
        after == ReportWrites(3, a.user, a.opponent, winner_id, loser_id, change, NULL)
    IN  /\ players' = after.players
        /\ matches' = after.matches
        /\ disk' = after
        /\ probe' = [probe EXCEPT !.task[t].pc = "send",
                                  !.task[t].msg = "Match result recorded!"]
        /\ UNCHANGED <<leagues, league_players, reply, failures>>

\* the ratings that the two SELECTs of report read, turned into the changes
ReportReads(t) ==
    LET a == probe.task[t]
    IN  IF a.result = "win"
        THEN calculate_elo_change(players[a.user].elo_rating,
                                  players[a.opponent].elo_rating)
        ELSE calculate_elo_change(players[a.opponent].elo_rating,
                                  players[a.user].elo_rating)

\* message.send completes: the user sees the message, the task ends
ReportSend(t) ==
    /\ reply' = Reply("report", probe.task[t].msg)
    /\ probe' = [probe EXCEPT !.task[t].pc = "done"]
    /\ UNCHANGED <<players, leagues, league_players, matches, disk, failures>>

\* report with an await (a defer) between its SELECTs and its UPDATEs
ResumeAwaitsBeforeWrites(t) ==
    LET a == probe.task[t]
        error == ReportError(a.user, a.opponent, None)
    IN  \/ /\ a.pc = "start"
           /\ probe' = IF error # NoError
                       THEN [probe EXCEPT !.task[t].pc = "send", !.task[t].msg = error]
                       ELSE [probe EXCEPT !.task[t].pc = "write",
                                          !.task[t].change = ReportReads(t)]
           /\ UNCHANGED <<players, leagues, league_players, matches, disk, reply, failures>>
        \/ /\ a.pc = "write"
           /\ ReportRun(t, a.change)
        \/ /\ a.pc = "send"
           /\ ReportSend(t)

\* the event loop resumes task t, which runs until its next await or its end
Resume(t) ==
    LET a == probe.task[t]
        error == ReportError(a.user, a.opponent, None)
    IN  \/ /\ a.pc = "start"
           /\ IF error # NoError
              THEN /\ probe' = [probe EXCEPT !.task[t].pc = "send", !.task[t].msg = error]
                   /\ UNCHANGED <<players, leagues, league_players, matches, disk,
                                  reply, failures>>
              ELSE ReportRun(t, ReportReads(t))
        \/ /\ a.pc = "send"
           /\ ReportSend(t)

\* register, while no report is in flight
RegisterQuiet(user, player_name) == Quiet /\ Register(user, player_name, 0)

NextTasks ==
    \/ \E u \in Users, n \in PlayerNames : RegisterQuiet(u, n)
    \/ \E t \in Tasks, u \in Users, o \in Users, res \in Results : Invoke(t, u, o, res)
    \/ \E t \in Tasks : Resume(t)

SpecTasks == InitTasks /\ [][NextTasks]_vars

-----------------------------------------------------------------------------
(* One invocation under the wrapper of command_decorator.  The wrapper runs *)
(* the handler under asyncio.wait_for(..., timeout=2.5): when the timeout   *)
(* fires, the handler is cancelled at the await where it is suspended       *)
(* (CancelledError is no Exception, so the handler's except branch does not *)
(* run) and the wrapper sends its own message only when the interaction has *)
(* not been responded to.  register sends its message with                  *)
(* response.send_message; create_league first awaits response.defer() and   *)
(* sends its message with followup.send.  `probe` holds the invocation.     *)

TimedOut == "Command timed out. Please try again."

NoCall ==
    [pc |-> "idle", cmd |-> "", user |-> 0, name |-> "", is_done |-> FALSE,
     received |-> FALSE, msg |-> ""]

InitWrapper == InitStore /\ probe = NoCall

\* a user invokes register or create_league: the wrapper starts the handler,
\* and create_league awaits its defer
Call(cmd, user, name) ==
    /\ probe.pc \in {"idle", "done"}
    /\ probe' = [NoCall EXCEPT !.pc = IF cmd = "create_league" THEN "defer" ELSE "run",
                               !.cmd = cmd, !.user = user, !.name = name]
    /\ UNCHANGED <<players, leagues, league_players, matches, disk, reply, failures>>

\* the tables and the message when the statements of the handler have run
HandlerResult ==
    LET user == probe.user
        league_id == Len(leagues) + 1
    IN  IF probe.cmd = "register"
        THEN IF user \in DOMAIN players
             THEN [tables |-> View, msg |-> UniqueFailed]
             ELSE [tables |-> [View EXCEPT !.players = @ @@ (user :> NewPlayer(probe.name))],
                   msg |-> "Successfully registered"]
        ELSE IF user \notin DOMAIN players
             THEN [tables |-> View, msg |-> MustRegister]
        ELSE IF LeagueId(leagues, probe.name) # NULL
             THEN [tables |-> View, msg |-> UniqueFailed]
        ELSE [tables |-> [View EXCEPT !.leagues = Append(@, probe.name),
                                      !.league_players =
                                          @ @@ (<<league_id, user>> :> NewLeaguePlayer)],
              msg |-> "Successfully created league"]

\* the handler runs its statements and commits, up to the await that sends its
\* message; for create_league this is when the defer has completed
Run ==
    /\ probe.pc \in {"defer", "run"}
    /\ players' = HandlerResult.tables.players
    /\ leagues' = HandlerResult.tables.leagues
    /\ league_players' = HandlerResult.tables.league_players
    /\ disk' = IF HandlerResult.tables = View THEN disk ELSE HandlerResult.tables
    /\ probe' = [probe EXCEPT !.pc = "send", !.msg = HandlerResult.msg,
                              !.is_done = (probe.pc = "defer")]
    /\ UNCHANGED <<matches, reply, failures>>

\* the message of the handler reaches the user, and the handler returns
Send ==
    /\ probe.pc = "send"
    /\ reply' = Reply(probe.cmd, probe.msg)
    /\ probe' = [probe EXCEPT !.pc = "done", !.is_done = TRUE, !.received = TRUE]
    /\ UNCHANGED <<players, leagues, league_players, matches, disk, failures>>

\* the 2.5 seconds pass while the handler is suspended at an await
Timeout ==
    /\ probe.pc \in {"defer", "send"}
    /\ IF probe.is_done
       THEN /\ probe' = [probe EXCEPT !.pc = "done"]
            /\ UNCHANGED reply
       ELSE /\ reply' = Reply(probe.cmd, TimedOut)
            /\ probe' = [probe EXCEPT !.pc = "done", !.is_done = TRUE, !.received = TRUE]
    /\ UNCHANGED <<players, leagues, league_players, matches, disk, failures>>

\* what the bot does without a user acting
WrapperStep == Run \/ Send \/ Timeout

NextWrapper ==
    \/ \E u \in Users, n \in PlayerNames : Call("register", u, n)
    \/ \E u \in Users, l \in TwoLeagues : Call("create_league", u, l)
    \/ Run
    \/ Send
    \/ Timeout

\* the event loop runs a task that is ready, and the timer of wait_for fires
SpecWrapper == InitWrapper /\ [][NextWrapper]_vars /\ WF_vars(WrapperStep)

-----------------------------------------------------------------------------
(* Long runs of reports.  The global ratings depend on register and report  *)
(* only; here these two commands run, report without league_name, until the *)
(* matches table holds MaxReports rows.                                     *)

MaxReports == 4                    \* rows the matches table may hold in a long run

ReportGlobal(user, opponent, result) ==
    LET winner_id == IF result = "win" THEN user ELSE opponent
        loser_id == IF result = "win" THEN opponent ELSE user
        change == calculate_elo_change(players[winner_id].elo_rating,
                                       players[loser_id].elo_rating)
    IN  IF ReportError(user, opponent, None) # NoError
        THEN Refuse("report", ReportError(user, opponent, None))
        ELSE /\ Len(matches) < MaxReports
             /\ Finish(0, 3,
                       ReportWrites(3, user, opponent, winner_id, loser_id, change, NULL),
                       "report", "Match result recorded!")

NextRatings ==
    \/ \E u \in Users, n \in PlayerNames : Register(u, n, 0)
    \/ \E u \in Users, o \in Users, res \in Results : ReportGlobal(u, o, res)

SpecRatings == Init /\ [][NextRatings]_vars

-----------------------------------------------------------------------------
(* Two leagues and three users.  The runs start when three players have     *)
(* registered and two of them have created the leagues L and M; the users   *)
(* then join the leagues and report matches for them; every match is        *)
(* reported by its winner.                                                  *)

Users3 == {1, 2, 3}

InitTwoLeagues ==
    LET pl == [u \in Users3 |-> NewPlayer(IF u = 2 THEN "bob" ELSE "ann")]
        lp == (<<1, 1>> :> NewLeaguePlayer) @@ (<<2, 2>> :> NewLeaguePlayer)
    IN  /\ players = pl
        /\ leagues = <<"L", "M">>
        /\ league_players = lp
        /\ matches = <<>>
        /\ disk = Tables(pl, <<"L", "M">>, lp, <<>>)
        /\ reply = Reply("create_league", "Successfully created league")
        /\ failures = 0
        /\ probe = NoProbe

NextTwoLeagues ==
    \/ \E u \in Users3, l \in TwoLeagues : JoinLeague(u, l, 0)
    \/ \E u \in Users3, o \in Users3, l \in TwoLeagues : Report(u, o, "win", l, 0)

SpecTwoLeagues == InitTwoLeagues /\ [][NextTwoLeagues]_vars

-----------------------------------------------------------------------------
(* league_bot.py: the one-file bot.  It has its own connection and cursor,  *)
(* its own copy of the schema (without PRAGMA foreign_keys) and its own     *)
(* handlers, which send their own messages.                                 *)

AlreadyRegistered == "You are already registered!"
LeagueExists == "A league with the name already exists!"
NeedRegister == "You need to register first using /register!"
LeagueNotFound == "League not found!"
AlreadyInLeague == "You are already in league"
BothMustRegister == "Both players must be registered first!"
BothMustBeMembers == "Both players must be members of the specified league!"
\* calculate_elo_change(winner_rating=..., loser_rating=...) raises TypeError
UnexpectedKeyword ==
    "Error: calculate_elo_change() got an unexpected keyword argument 'winner_rating'"

StandaloneRegister(user, player_name) ==
    IF user \in DOMAIN players
        THEN Refuse("register", AlreadyRegistered)
        ELSE Finish(0, 1, [View EXCEPT !.players = @ @@ (user :> NewPlayer(player_name))],
                    "register", "Successfully registered")

StandaloneCreateLeague(league_name) ==
    IF LeagueId(leagues, league_name) # NULL       \* league_name UNIQUE
        THEN Refuse("create_league", LeagueExists)
        ELSE Finish(0, 1, [View EXCEPT !.leagues = Append(@, league_name)],
                    "create_league", "Successfully created league")

StandaloneJoinLeague(user, league_name) ==
    LET league_id == LeagueId(leagues, league_name)
    IN  IF user \notin DOMAIN players
        THEN Refuse("join_league", NeedRegister)
        ELSE IF league_id = NULL
        THEN Refuse("join_league", LeagueNotFound)
        ELSE IF <<league_id, user>> \in DOMAIN league_players
        THEN Refuse("join_league", AlreadyInLeague)
        ELSE Finish(0, 1,
                    [View EXCEPT !.league_players =
                       @ @@ (<<league_id, user>> :> NewLeaguePlayer)],
                    "join_league", "Successfully joined league")

\* report: the two SELECTs count rows, so a report against oneself finds one
\* row of two; past the checks the call of calculate_elo_change raises before
\* any statement writes
StandaloneReport(user, opponent, result, league_name) ==
    LET league_id == LeagueId(leagues, league_name)
        members == {id \in {user, opponent} : <<league_id, id>> \in DOMAIN league_players}
    IN  IF Cardinality({user, opponent} \cap DOMAIN players) # 2
        THEN Refuse("report", BothMustRegister)
        ELSE IF league_name # None /\ league_id = NULL
        THEN Refuse("report", LeagueNotFound)
        ELSE IF league_name # None /\ Cardinality(members) # 2
        THEN Refuse("report", BothMustBeMembers)
        ELSE Refuse("report", UnexpectedKeyword)

\* league_standings: one joined SELECT, which finds no row for a league_name
\* without a row of leagues and for a league without members
StandaloneLeagueStandings(league_name) ==
    LET league_id == LeagueId(leagues, league_name)
    IN  IF JoinedMembers(league_id) = {}
        THEN Refuse("league_standings", NoPlayersFound)
        ELSE \E s \in LeagueStandingsOrders(league_id) :
                Show("league_standings",
                     [i \in DOMAIN s |-> LeagueStandingsRow(league_id, s[i])])

NextStandalone ==
    \/ \E u \in Users, n \in PlayerNames : StandaloneRegister(u, n)
    \/ \E l \in LeagueNames : StandaloneCreateLeague(l)
    \/ \E u \in Users, l \in LeagueNames : StandaloneJoinLeague(u, l)
    \/ \E u \in Users, o \in Users, res \in Results, l \in LeagueNames \cup {None} :
          StandaloneReport(u, o, res, l)
    \/ \E l \in LeagueNames : StandaloneLeagueStandings(l)

SpecStandalone == Init /\ [][NextStandalone]_vars

-----------------------------------------------------------------------------
(* The rating engine on its own: calculate_elo_change and get_rank applied  *)
(* to arguments drawn from a set of ratings.                               *)

Half == Unit \div 2
Ulp100 == Quantum(100 * Unit)       \* the spacing of the ratings around 100

\* ratings given to calculate_elo_change: equal, adjacent, near and far ones
EloInputs ==
    { 100 * Unit, 100 * Unit + Ulp100, 600 * Unit, 800 * Unit, 984 * Unit,
      1000 * Unit, 1001 * Unit, 1016 * Unit, 1030 * Unit + Half, 1200 * Unit,
      1400 * Unit }

\* ratings given to get_rank: the bounds of every rank, and ratings between them
RankInputs ==
    { 0 - Unit, 0, 450 * Unit, 899 * Unit, 899 * Unit + Half, 900 * Unit,
      1000 * Unit, 1199 * Unit, 1199 * Unit + Half, 1200 * Unit, 1499 * Unit,
      1500 * Unit, 1799 * Unit, 1800 * Unit, 2099 * Unit, 2100 * Unit,
      2399 * Unit, 2400 * Unit, 2699 * Unit, 2700 * Unit, 5000 * Unit }

NoResult == <<>>

InitElo ==
    /\ InitStore
    /\ probe \in { [a |-> a, b |-> b, fwd |-> NoResult, rev |-> NoResult] :
                   a \in EloInputs, b \in EloInputs }

\* a wins against b, and b wins against a
ApplyElo ==
    /\ probe.fwd = NoResult
    /\ probe' = [probe EXCEPT !.fwd = calculate_elo_change(probe.a, probe.b),
                              !.rev = calculate_elo_change(probe.b, probe.a)]
    /\ UNCHANGED <<players, leagues, league_players, matches, disk, reply, failures>>

SpecElo == InitElo /\ [][ApplyElo]_vars

InitRank ==
    /\ InitStore
    /\ probe \in { [r1 |-> r1, r2 |-> r2, rank1 |-> NoResult, rank2 |-> NoResult] :
                   r1 \in RankInputs, r2 \in RankInputs }

ApplyRank ==
    /\ probe.rank1 = NoResult
    /\ probe' = [probe EXCEPT !.rank1 = <<get_rank(probe.r1)>>,
                              !.rank2 = <<get_rank(probe.r2)>>]
    /\ UNCHANGED <<players, leagues, league_players, matches, disk, reply, failures>>

SpecRank == InitRank /\ [][ApplyRank]_vars

-----------------------------------------------------------------------------
(* Properties of the report command (checked under Spec).                  *)

\* the step inserts a row into matches, and the row is a completed match
ReportedMatch == 
    /\ Len(matches') = Len(matches) + 1
    /\ matches'[Len(matches')].status = "completed"

Reported == matches'[Len(matches')]

Participants(m) == {m.player1_id, m.player2_id}

\* C1: a report without a league between two distinct players of equal rating r,
\* won by x against y, leaves x with one more win and the rating r + 16, y with
\* one more loss and the rating r - 16, and changes nothing else in the two rows.
C1_EqualRatingsReport ==
    [][\A x, y \in Users :
         ( /\ x # y
           /\ x \in DOMAIN players /\ y \in DOMAIN players
           /\ players[x].elo_rating = players[y].elo_rating
           /\ ReportedMatch
           /\ Reported.league_id = NULL
           /\ Reported.winner_id = x
           /\ Participants(Reported) = {x, y} )
         => /\ players'[x] = [players[x] EXCEPT
                                !.wins = @ + 1,
                                !.elo_rating = FAdd(@, 16 * Unit)]
            /\ players'[y] = [players[y] EXCEPT
                                !.losses = @ + 1,
                                !.elo_rating = FAdd(@, 0 - 16 * Unit)]
      ]_vars

\* two players of rating 1000, after the report of the first one's win
C1_Witness ==
    \E x, y \in DOMAIN players :
        /\ x # y
        /\ players[x].wins = 1 /\ players[x].losses = 0
        /\ players[x].elo_rating = 1016 * Unit
        /\ players[y].wins = 0 /\ players[y].losses = 1
        /\ players[y].elo_rating = 984 * Unit
        /\ \E i \in 1..Len(matches) :
              /\ matches[i].status = "completed" /\ matches[i].league_id = NULL
              /\ matches[i].winner_id = x /\ Participants(matches[i]) = {x, y}

\* C2: a report in a league between two distinct members computes one pair of
\* changes from the two global ratings and adds it to the two rows of players
\* and to the two rows of league_players of that league, with one more win
\* (global and league) for the winner and one more loss for the loser.
C2_LeagueReport ==
    [][\A w, l \in Users :
         ( /\ w # l
           /\ ReportedMatch
           /\ Reported.league_id # NULL
           /\ Reported.winner_id = w
           /\ Participants(Reported) = {w, l} )
         => LET lg == Reported.league_id
                change == calculate_elo_change(players[w].elo_rating,
                                               players[l].elo_rating)
            IN  /\ players'[w] = [players[w] EXCEPT
                                    !.wins = @ + 1,
                                    !.elo_rating = FAdd(@, change[1])]
                /\ players'[l] = [players[l] EXCEPT
                                    !.losses = @ + 1,
                                    !.elo_rating = FAdd(@, change[2])]
                /\ league_players'[<<lg, w>>] =
                       [league_players[<<lg, w>>] EXCEPT
                          !.league_wins = @ + 1,
                          !.league_elo = FAdd(@, change[1])]
                /\ league_players'[<<lg, l>>] =
                       [league_players[<<lg, l>>] EXCEPT
                          !.league_losses = @ + 1,
                          !.league_elo = FAdd(@, change[2])]
      ]_vars

\* a league match has been reported between players whose global ratings were
\* not equal: the winner's league rating then differs from 1016
C2_Witness ==
    \E i \in 1..Len(matches) :
        LET m == matches[i]
        IN  /\ m.status = "completed" /\ m.league_id # NULL
            /\ m.player1_id # m.player2_id
            /\ league_players[<<m.league_id, m.winner_id>>].league_wins = 1
            /\ league_players[<<m.league_id, m.winner_id>>].league_elo
                   \notin {1000 * Unit, 1016 * Unit}

-----------------------------------------------------------------------------
(* Properties of the rating engine (checked under SpecElo and SpecRank).   *)

C4_Claimed ==
    (probe.fwd # NoResult /\ probe.a > probe.b) =>
        /\ probe.fwd[1] < probe.rev[1]
        /\ 0 < probe.fwd[1] /\ probe.fwd[1] < K_FACTOR * Unit
        /\ 0 < probe.rev[1] /\ probe.rev[1] < K_FACTOR * Unit

\* C4, amended: for a > b the winner's change when a wins is at most half of
\* K_FACTOR and at most the change when b wins, which is at least half of
\* K_FACTOR; both lie between 0 and K_FACTOR; and all these inequalities are
\* strict when a - b is at least one rating point.
C4_UpsetSwing ==
    (probe.fwd # NoResult /\ probe.a > probe.b) =>
        /\ 0 < probe.fwd[1]
        /\ probe.fwd[1] <= (K_FACTOR \div 2) * Unit
        /\ (K_FACTOR \div 2) * Unit <= probe.rev[1]
        /\ probe.rev[1] < K_FACTOR * Unit
        /\ probe.a - probe.b >= Unit =>
              /\ probe.fwd[1] < (K_FACTOR \div 2) * Unit
              /\ (K_FACTOR \div 2) * Unit < probe.rev[1]

\* the function has been applied, both ways, to ratings a point or more apart
C4_Witness ==
    /\ probe.fwd # NoResult
    /\ probe.a - probe.b >= Unit
    /\ probe.fwd[1] < probe.rev[1]

\* the order of the ranks; "Unranked" is no rank and stands below them all
RECURSIVE RankOrderFrom(_, _)
RankOrderFrom(rank, i) ==
    IF i > Len(RankNames) THEN 0
    ELSE IF RankNames[i] = rank THEN i
    ELSE RankOrderFrom(rank, i + 1)

RankOrder(rank) == RankOrderFrom(rank, 1)

\* C5, as claimed: get_rank gives every rating >= 0 one of the eight ranks,
\* never "Unranked".
C5_Claimed ==
    probe.rank1 # NoResult =>
        /\ probe.r1 >= 0 => RankOrder(probe.rank1[1]) >= 1
        /\ probe.r2 >= 0 => RankOrder(probe.rank2[1]) >= 1

\* C6, as claimed: for r1 <= r2 the rank of r2 is not below the rank of r1, 899
\* is Iron and 900 is Bronze.
C6_Claimed ==
    (probe.rank1 # NoResult /\ probe.r1 <= probe.r2) =>
        /\ RankOrder(probe.rank1[1]) <= RankOrder(probe.rank2[1])
        /\ probe.r1 = 899 * Unit => probe.rank1[1] = "Iron"
        /\ probe.r1 = 900 * Unit => probe.rank1[1] = "Bronze"

-----------------------------------------------------------------------------
(* Properties of the commands that refuse (checked under Spec).            *)

StoreUnchanged ==
    UNCHANGED <<players, leagues, league_players, matches, disk>>

\* C7: register by a user who has a row of players fails with "This record
\* already exists." and changes no row, whatever came before.
C7_RegisterTwice ==
    [][\A u \in Users, n \in PlayerNames :
         (u \in DOMAIN players /\ Register(u, n, 0))
         => (reply' = Reply("register", UniqueFailed) /\ StoreUnchanged)
      ]_vars

\* a registration has been refused for a player who has played since the first
C7_Witness ==
    /\ reply = Reply("register", UniqueFailed)
    /\ \E u \in DOMAIN players : players[u].wins + players[u].losses > 0

\* register of the one-file bot, for a user who has a row of players: the
\* reply is "You are already registered!" and no row changes (checked under
\* SpecStandalone)
StandaloneRegisterTwice ==
    [][\A u \in Users, n \in PlayerNames :
         (u \in DOMAIN players /\ StandaloneRegister(u, n))
         => (reply' = Reply("register", AlreadyRegistered) /\ StoreUnchanged)
      ]_vars

StandaloneRegisteredTwice ==
    /\ reply = Reply("register", AlreadyRegistered)
    /\ Len(leagues) > 0

\* C8: report fails with a must-register error and changes no row when the
\* reporter or the opponent has no row of players.
C8_ReportUnregistered ==
    [][\A u, o \in Users, res \in Results, l \in LeagueNames \cup {None} :
         ((u \notin DOMAIN players \/ o \notin DOMAIN players) /\ Report(u, o, res, l, 0))
         => /\ reply'.cmd = "report"
            /\ reply'.msg \in {MustRegister, OpponentMustRegister}
            /\ StoreUnchanged
      ]_vars

\* a report has been refused because the opponent of a registered reporter is
\* not registered
C8_Witness ==
    /\ reply = Reply("report", OpponentMustRegister)
    /\ DOMAIN players # {}

-----------------------------------------------------------------------------
(* Properties of the committed store when statements fail (checked under   *)
(* SpecF).                                                                 *)

RECURSIVE Total(_, _, _)
Total(pl, ids, wins) ==
    IF ids = {} THEN 0
    ELSE LET u == CHOOSE u \in ids : TRUE
         IN  (IF wins THEN pl[u].wins ELSE pl[u].losses) + Total(pl, ids \ {u}, wins)

Completed(ma) == Cardinality({i \in 1..Len(ma) : ma[i].status = "completed"})

\* C9, as claimed: the committed store never holds a part of a report.  Every
\* whole report adds one win, one loss and one completed row, so the committed
\* wins and the committed losses both number the committed completed matches.
C9_Claimed ==
    /\ Total(disk.players, DOMAIN disk.players, TRUE) = Completed(disk.matches)
    /\ Total(disk.players, DOMAIN disk.players, FALSE) = Completed(disk.matches)

\* C10, as claimed: in the committed store a league and its creator's
\* membership exist together.  The schema does not record the creator; the
\* membership create_league inserts is the first of the league, so every
\* committed league has a member and every membership has its league.
C10_Claimed ==
    /\ \A i \in 1..Len(disk.leagues) :
          \E u \in Users : <<i, u>> \in DOMAIN disk.league_players
    /\ \A k \in DOMAIN disk.league_players : k[1] \in 1..Len(disk.leagues)

-----------------------------------------------------------------------------
(* Properties of the league commands (checked under Spec).                 *)

\* C11: create_league by a user without a row of players fails with the
\* must-register message, create_league with the name of a league fails with
\* "This record already exists."; neither inserts a row, and no two leagues
\* ever have the same name.
C11_CreateLeagueRefused ==
    /\ [](\A i, j \in 1..Len(leagues) : leagues[i] = leagues[j] => i = j)
    /\ [][\A u \in Users, l \in LeagueNames :
            ( /\ u \notin DOMAIN players \/ LeagueId(leagues, l) # NULL
              /\ CreateLeague(u, l, 0) )
            => /\ reply' = Reply("create_league",
                                 IF u \notin DOMAIN players THEN MustRegister
                                 ELSE UniqueFailed)
               /\ StoreUnchanged
         ]_vars

\* a registered user has been refused the name of the league that exists
C11_Witness ==
    /\ reply = Reply("create_league", UniqueFailed)
    /\ Len(leagues) = 1
    /\ DOMAIN league_players # {}

\* C12: join_league with a name no league has fails with "League does not
\* exist!" and changes no row.
C12_JoinNoLeague ==
    [][\A u \in Users, l \in LeagueNames :
         (LeagueId(leagues, l) = NULL /\ JoinLeague(u, l, 0))
         => (reply' = Reply("join_league", NoSuchLeague) /\ StoreUnchanged)
      ]_vars

\* a registered player has been refused a league that does not exist
C12_Witness ==
    /\ reply = Reply("join_league", NoSuchLeague)
    /\ DOMAIN players # {}
    /\ Len(leagues) = 0

\* C13: join_league by a member of the league fails with "This record already
\* exists." and changes no row: the member's league_elo, league_wins and
\* league_losses stay as they are.
C13_JoinTwice ==
    [][\A u \in Users, l \in LeagueNames :
         ( /\ LeagueId(leagues, l) # NULL
           /\ <<LeagueId(leagues, l), u>> \in DOMAIN league_players
           /\ JoinLeague(u, l, 0) )
         => (reply' = Reply("join_league", UniqueFailed) /\ StoreUnchanged)
      ]_vars

\* a member who has played in the league has been refused a second membership
C13_Witness ==
    /\ reply = Reply("join_league", UniqueFailed)
    /\ \E k \in DOMAIN league_players :
          league_players[k].league_wins + league_players[k].league_losses > 0

-----------------------------------------------------------------------------
(* Properties of the match commands (checked under Spec).                  *)

\* the step adds to matches one pending row of user against opponent at time,
\* without winner and without league, and changes no other table
Scheduled(user, opponent, time) ==
    /\ matches' = Append(matches, [player1_id |-> user, player2_id |-> opponent,
                                   scheduled_time |-> time, status |-> "pending",
                                   winner_id |-> NULL, league_id |-> NULL])
    /\ UNCHANGED <<players, leagues, league_players>>

\* C14, as claimed: schedule fails with the opponent-not-registered message and
\* inserts nothing when the opponent has no row of players, and otherwise
\* inserts one pending match, whoever calls.
C14_Claimed ==
    [][\A u, o \in Users, t \in Times :
         Schedule(u, o, t, 0)
         => IF o \notin DOMAIN players
            THEN reply' = Reply("schedule", OpponentNotRegistered) /\ StoreUnchanged
            ELSE Scheduled(u, o, t)
      ]_vars

\* C14, amended: schedule has three outcomes.  The opponent has no row of
\* players: the opponent-not-registered message, nothing inserted.  The opponent
\* has one and the caller has none: "Database constraint violation.", nothing
\* inserted.  Both have one: one pending match is inserted.
C14_Schedule ==
    [][\A u, o \in Users, t \in Times :
         Schedule(u, o, t, 0)
         => IF o \notin DOMAIN players
            THEN reply' = Reply("schedule", OpponentNotRegistered) /\ StoreUnchanged
            ELSE IF u \notin DOMAIN players
            THEN reply' = Reply("schedule", ConstraintFailed) /\ StoreUnchanged
            ELSE Scheduled(u, o, t) /\ reply' = Reply("schedule", "Match scheduled")
      ]_vars

\* a caller without a row of players has been refused a match against a
\* registered opponent
C14_Witness ==
    /\ reply = Reply("schedule", ConstraintFailed)
    /\ Cardinality(DOMAIN players) = 1
    /\ matches = <<>>

\* C15: every player id of a row of league_players or of matches (player1_id,
\* player2_id, winner_id) is the id of a row of players, and every league id of
\* such a row is the id of a league.
C15_ReferentialIntegrity ==
    /\ \A k \in DOMAIN league_players :
          k[1] \in 1..Len(leagues) /\ k[2] \in DOMAIN players
    /\ \A i \in 1..Len(matches) :
          /\ matches[i].player1_id \in DOMAIN players
          /\ matches[i].player2_id \in DOMAIN players
          /\ matches[i].winner_id \in DOMAIN players \cup {NULL}
          /\ matches[i].league_id \in 1..Len(leagues) \cup {NULL}

\* the store holds a membership, a pending match and a completed league match
C15_Witness ==
    /\ DOMAIN league_players # {}
    /\ \E i, j \in 1..Len(matches) :
          /\ matches[i].status = "pending"
          /\ matches[j].status = "completed" /\ matches[j].league_id # NULL

\* completed matches of player id
CompletedOf(ma, id) ==
    {i \in 1..Len(ma) : ma[i].status = "completed" /\ id \in Participants(ma[i])}

\* C16, as claimed: wins and losses never decrease, and every player's wins +
\* losses is the number of completed matches the player is a participant of,
\* matches against oneself included.
C16_Claimed ==
    /\ [](\A id \in DOMAIN players :
            players[id].wins + players[id].losses
                = Cardinality(CompletedOf(matches, id)))
    /\ [][\A id \in DOMAIN players :
            /\ id \in DOMAIN players'
            /\ players'[id].wins >= players[id].wins
            /\ players'[id].losses >= players[id].losses]_vars

\* What a step Report(user, opponent, result, league_name, 0) shows in the reply
\* and in the last row of matches.  It follows from Report and is much cheaper
\* to evaluate: put in front of Report, it spares the computation of the
\* rating changes on the steps of other commands and of other reports.
ReportShows(user, opponent, result, league_name) ==
    /\ reply'.cmd = "report"
    /\ IF reply'.msg = "Match result recorded!"
       THEN /\ Len(matches') = Len(matches) + 1
            /\ Reported.player1_id = user /\ Reported.player2_id = opponent
            /\ Reported.winner_id = IF result = "win" THEN user ELSE opponent
       ELSE reply'.msg = ReportError(user, opponent, league_name)

\* C17: a report without a league changes no row of league_players and no
\* league, and the match it inserts has no league.
C17_ReportWithoutLeague ==
    [][\A u, o \in Users, res \in Results :
         ( /\ ReportShows(u, o, res, None)
           /\ Report(u, o, res, None, 0) )
         => /\ UNCHANGED <<leagues, league_players>>
            /\ reply'.msg = "Match result recorded!"
                  => /\ ReportedMatch
                     /\ Reported.league_id = NULL
                     /\ players' # players
      ]_vars

\* two members of a league have a completed match without league, and their
\* league_players rows are as they were when they joined
C17_Witness ==
    \E i \in 1..Len(matches) :
        LET m == matches[i]
        IN  /\ m.status = "completed" /\ m.league_id = NULL
            /\ m.player1_id # m.player2_id
            /\ \A id \in Participants(m) :
                  /\ <<1, id>> \in DOMAIN league_players
                  /\ league_players[<<1, id>>] = NewLeaguePlayer
                  /\ players[id].wins + players[id].losses = 1

\* C18: a row of matches changes its status only from pending to completed,
\* and a completed row stays in the table and keeps all its columns.
C18_CompletedIsTerminal ==
    [][\A i \in 1..Len(matches) :
         /\ i <= Len(matches')
         /\ matches'[i].status # matches[i].status
               => matches[i].status = "pending" /\ matches'[i].status = "completed"
         /\ matches[i].status = "completed" => matches'[i] = matches[i]
      ]_vars

\* a completed match is followed in the table by a later match of the same
\* two players
C18_Witness ==
    /\ Len(matches) >= 2
    /\ matches[1].status = "completed"
    /\ Participants(matches[2]) = Participants(matches[1])
    /\ matches[2].status = "completed"
    /\ matches[2].winner_id # matches[1].winner_id

\* C19, as claimed: when a pending match between two players exists and a
\* report between them succeeds, a pending match between them becomes
\* completed, with its winner recorded.
C19_Claimed ==
    [][\A u, o \in Users, res \in Results, l \in LeagueNames \cup {None} :
         ( /\ \E i \in 1..Len(matches) :
                 matches[i].status = "pending" /\ Participants(matches[i]) = {u, o}
           /\ Report(u, o, res, l, 0)
           /\ reply'.msg = "Match result recorded!" )
         => \E i \in 1..Len(matches) :
               /\ matches[i].status = "pending" /\ Participants(matches[i]) = {u, o}
               /\ matches'[i].status = "completed"
               /\ matches'[i].winner_id \in {u, o}
      ]_vars

\* C20: a report naming a league, between two registered players, fails with
\* "League does not exist!" when no league has the name and with a
\* not-a-member message when the reporter or the opponent is not a member of
\* it; it then changes no row.
C20_LeagueReportRefused ==
    [][\A l \in LeagueNames, u, o \in Users :
         LET league_id == LeagueId(leagues, l)
             error == IF league_id = NULL THEN NoSuchLeague
                      ELSE IF <<league_id, u>> \notin DOMAIN league_players THEN NotMember
                      ELSE IF <<league_id, o>> \notin DOMAIN league_players
                      THEN OpponentNotMember
                      ELSE NoError
         IN  ( /\ reply'.cmd = "report"        \* implied by Report, and cheaper
               /\ u \in DOMAIN players /\ o \in DOMAIN players
               /\ error # NoError )
             => \A res \in Results :
                   Report(u, o, res, l, 0)
                   => (reply' = Reply("report", error) /\ StoreUnchanged)
      ]_vars

\* a member of a league has been refused a report against a registered player
\* who is not a member
C20_Witness ==
    /\ reply = Reply("report", OpponentNotMember)
    /\ Cardinality(DOMAIN league_players) = 1
    /\ Cardinality(DOMAIN players) = 2

-----------------------------------------------------------------------------
(* C21: global standings.  Whenever at least one player is registered the   *)
(* standings command sends a table (a success, not an error) that lists     *)
(* every row of players exactly once, in non-increasing order of the global *)
(* rating, each with its tier; with no player it sends the message that     *)
(* there are no entries yet.                                                *)
C21_Claimed ==
    [][Standings =>
        IF DOMAIN players = {}
        THEN reply'.msg = NoPlayers
        ELSE /\ reply'.msg = TableSent
             /\ \E s \in Orders(DOMAIN players) :
                   /\ reply'.rows = [i \in DOMAIN s |-> StandingsRow(s[i])]
                   /\ \A i \in 1..(Len(s) - 1) :
                         reply'.rows[i].elo_rating >= reply'.rows[i + 1].elo_rating]_vars

\* C21, the part that holds: with no player registered the standings command
\* says so, and with a player it sends no table but an error message
C21_StandingsFails ==
    [][Standings =>
        reply'.msg = (IF DOMAIN players = {} THEN NoPlayers ELSE RanksUndefined)]_vars

-----------------------------------------------------------------------------
(* C22: league standings tell a missing league from an empty one.  For a    *)
(* league_name without a row of leagues the command sends a league-not-     *)
(* found error; for a league without members it sends the (non-error)       *)
(* message that the league has no players.  Claimed of the package and of   *)
(* league_bot.py; this is the statement for league_bot.py.                  *)
C22_Claimed ==
    [][\A l \in LeagueNames :
         StandaloneLeagueStandings(l) =>
            IF LeagueId(leagues, l) = NULL
            THEN reply'.msg \in {NoSuchLeague, LeagueNotFound}
            ELSE JoinedMembers(LeagueId(leagues, l)) = {} => reply'.msg = NoPlayersFound]_vars

\* C22 for the package: league_standings of commands/league_commands.py
C22_PackageDistinguishes ==
    [][\A l \in TwoLeagues :
         LeagueStandings(l) =>
            IF LeagueId(leagues, l) = NULL
            THEN reply'.msg = NoSuchLeague
            ELSE JoinedMembers(LeagueId(leagues, l)) = {} => reply'.msg = NoPlayersFound]_vars

\* a league without members was asked for its standings (package)
C22_PackageEmptyLeague ==
    /\ reply = Reply("league_standings", NoPlayersFound)
    /\ leagues # <<>>

-----------------------------------------------------------------------------
(* C23: list_leagues.  When there is a league, list_leagues sends a table   *)
(* with one row for every row of leagues and no other row; the row of a     *)
(* league carries the number of its membership rows, which is 0 for a       *)
(* league without members.                                                  *)
C23_ListLeagues ==
    [][(ListLeagues /\ leagues # <<>>) =>
        /\ reply'.msg = TableSent
        /\ Len(reply'.rows) = Len(leagues)
        /\ \A id \in DOMAIN leagues :
              \E i \in DOMAIN reply'.rows :
                /\ reply'.rows[i].league_name = leagues[id]
                /\ reply'.rows[i].count =
                      Cardinality({u \in Users : <<id, u>> \in DOMAIN league_players})
                /\ \A j \in DOMAIN reply'.rows :
                      reply'.rows[j].league_name = leagues[id] => j = i]_vars

\* list_leagues has listed a league without members and a league with two
C23_Witness ==
    /\ reply.cmd = "list_leagues"
    /\ reply.msg = TableSent
    /\ \E i, j \in DOMAIN reply.rows :
          reply.rows[i].count = 0 /\ reply.rows[j].count = 2

-----------------------------------------------------------------------------
(* C24: two report commands in flight at once.  Whatever the order in which *)
(* the event loop resumes the two tasks at their awaits, once both have     *)
(* ended the tables are what running the reports one after the other, in    *)
(* one of the two orders, leaves.                                           *)

\* the tables after a report (without league_name) that runs alone on T
SerialReport(T, a) ==
    LET winner_id == IF a.result = "win" THEN a.user ELSE a.opponent
        loser_id == IF a.result = "win" THEN a.opponent ELSE a.user
        change == calculate_elo_change(T.players[winner_id].elo_rating,
                                       T.players[loser_id].elo_rating)
    IN  IF {a.user, a.opponent} \subseteq DOMAIN T.players
        THEN [T EXCEPT !.players = UpdateLoser(UpdateWinner(@, winner_id, change[1]),
                                               loser_id, change[2]),
                       !.matches = Append(@, NewMatch(a.user, a.opponent, NullTime,
                                                      "completed", winner_id, NULL))]
        ELSE T

\* the tables that the ended tasks of `pr` leave when they run one after the
\* other, in either order
SerialOutcomes(pr) ==
    LET done == {t \in Tasks : pr.task[t].pc = "done"}
    IN  IF Cardinality(done) = 1
        THEN {SerialReport(pr.base, pr.task[t]) : t \in done}
        ELSE {SerialReport(SerialReport(pr.base, pr.task[t]), pr.task[3 - t]) :
                t \in done}

C24_Serializable ==
    [][\A t \in Tasks :
         (probe.task[t].pc = "send" /\ Resume(t)
            /\ \A s \in Tasks : probe'.task[s].pc \in {"idle", "done"})
         => /\ Tables(players', leagues', league_players', matches')
                 \in SerialOutcomes(probe')
            /\ disk' = Tables(players', leagues', league_players', matches')]_vars

\* two reports on the same two players were in flight together and have
\* both been recorded
C24_Witness ==
    /\ \A t \in Tasks : probe.task[t].pc = "done" /\ probe.task[t].msg = "Match result recorded!"
    /\ probe.task[1].user # probe.task[1].opponent
    /\ {probe.task[1].user, probe.task[1].opponent}
          = {probe.task[2].user, probe.task[2].opponent}
    /\ Len(matches) = Len(probe.base.matches) + 2

-----------------------------------------------------------------------------
(* C25: every invocation is answered.  On every path through the wrapper    *)
(* and the handler, the timeout that fires after the handler has deferred   *)
(* its response included, the invoking user eventually receives a reply.    *)
C25_Claimed == (probe.pc \in {"defer", "run", "send"}) ~> probe.received

\* C25 for a handler that does not defer: an invocation of register is answered
C25_RegisterAnswered ==
    (probe.cmd = "register" /\ probe.pc \in {"run", "send"}) ~> probe.received

\* C25 without the timeout: an invocation that has ended without an answer was
\* cut by the timeout after its defer
C25_OnlyAfterDefer ==
    [][(probe'.pc = "done" /\ ~probe'.received) =>
          (probe.cmd = "create_league" /\ probe.is_done /\ probe.pc \in {"send", "done"})]_vars

-----------------------------------------------------------------------------
(* C26: the global ratings are conserved.  In every state reached by        *)
(* register, create_league, join_league, schedule and report, without store *)
(* failures, the global ratings of the registered players add up to 1000    *)
(* times the number of registered players.                                  *)

\* the exact sum of the ratings of the players `ids`
RECURSIVE RatingSum(_, _)
RatingSum(pl, ids) ==
    IF ids = {} THEN 0
    ELSE LET u == CHOOSE u \in ids : TRUE
         IN  pl[u].elo_rating + RatingSum(pl, ids \ {u})

C26_Claimed ==
    RatingSum(players, DOMAIN players) = INITIAL_ELO * Unit * Cardinality(DOMAIN players)

\* the spacing of the ratings between 1024 and 2048, the largest below 2048
RatingUlp == Unit \div 2 ^ (Prec - 11)

\* C26, amended: the global ratings are conserved up to rounding.  The two
\* changes of a report are exactly opposite, and each of its two additions
\* rounds by at most half a spacing: while all ratings are below 2048 the sum
\* of the ratings is within one spacing per completed match of 1000 times the
\* number of registered players.
C26_ConservedUpToRounding ==
    (\A u \in DOMAIN players : players[u].elo_rating < 2048 * Unit)
    => Abs(RatingSum(players, DOMAIN players)
             - INITIAL_ELO * Unit * Cardinality(DOMAIN players))
          <= Completed(matches) * RatingUlp

\* reports have been recorded and the ratings no longer add up exactly
C26_Witness ==
    /\ Completed(matches) >= 2
    /\ RatingSum(players, DOMAIN players)
          # INITIAL_ELO * Unit * Cardinality(DOMAIN players)

-----------------------------------------------------------------------------
(* C27: a report for league L writes the league rows of its two players in  *)
(* L and no other league row.  When a report that names league L is         *)
(* recorded, the winner's row of L gains a league win and the loser's row   *)
(* of L a league loss, and every other row of league_players (the rows of   *)
(* another league M, whoever holds them, and the rows of users who did not  *)
(* play) is left as it was; no row is added or removed.                     *)
C27_LeagueReport ==
    [][(reply'.cmd = "report" /\ reply'.msg = "Match result recorded!") =>
       \A u \in Users3, o \in Users3, res \in Results, l \in TwoLeagues :
         (/\ ReportShows(u, o, res, l)
          /\ Reported.league_id = LeagueId(leagues, l)
          /\ Report(u, o, res, l, 0))
         => LET league_id == LeagueId(leagues, l)
                winner_id == IF res = "win" THEN u ELSE o
                loser_id == IF res = "win" THEN o ELSE u
            IN  /\ DOMAIN league_players' = DOMAIN league_players
                /\ \A key \in DOMAIN league_players :
                      (key[1] # league_id \/ key[2] \notin {u, o})
                         => league_players'[key] = league_players[key]
                /\ league_players'[<<league_id, winner_id>>].league_wins
                      = league_players[<<league_id, winner_id>>].league_wins + 1
                /\ league_players'[<<league_id, loser_id>>].league_losses
                      = league_players[<<league_id, loser_id>>].league_losses + 1]_vars

\* a report for league M, then a report for league L between two users who
\* are also members of M, while a third user is a member of L
C27_Witness ==
    /\ Len(matches) = 2
    /\ matches[1].league_id = 2
    /\ matches[2].league_id = 1
    /\ matches[2].player1_id # matches[2].player2_id
    /\ Participants(matches[2]) = Participants(matches[1])
    /\ \E u \in Users3 \ Participants(matches[2]) : <<1, u>> \in DOMAIN league_players
    /\ reply = Reply("report", "Match result recorded!")

-----------------------------------------------------------------------------
(* C28: every league has a member.  Without store failures, the step that   *)
(* creates a league also gives the creating user a membership row of it, no *)
(* membership row is ever removed, and so every row of leagues has at least *)
(* one membership row in every state.                                       *)
C28_LeagueHasCreator ==
    /\ [](\A id \in DOMAIN leagues : \E u \in Users : <<id, u>> \in DOMAIN league_players)
    /\ [][/\ DOMAIN league_players \subseteq DOMAIN league_players'
           /\ \A u \in Users, l \in LeagueNames :
                 (Len(leagues') = Len(leagues) + 1 /\ CreateLeague(u, l, 0))
                    => <<Len(leagues'), u>> \in DOMAIN league_players']_vars

\* a league has just been created, and its only member is a registered player
C28_Witness ==
    /\ reply = Reply("create_league", "Successfully created league")
    /\ Len(leagues) = 1
    /\ \E u \in DOMAIN players : DOMAIN league_players = {<<1, u>>}

-----------------------------------------------------------------------------
(* C29: schedule_table.  Whenever the matches table holds a row, the        *)
(* completed rows that report inserts (which have no scheduled time)        *)
(* included, schedule_table sends a table (a success) with one row for      *)
(* every row of matches.                                                    *)
C29_Claimed ==
    [][(ScheduleTable /\ matches # <<>>) =>
        /\ reply'.msg = TableSent
        /\ \E s \in Orders(1..Len(matches)) :
              reply'.rows = [i \in DOMAIN s |-> ScheduleRow(s[i])]]_vars

\* C29 for the rows that schedule inserts: when every row of matches has a
\* scheduled time, schedule_table lists every row once; when a row has none,
\* it sends the message of the TypeError
C29_ScheduledListed ==
    [][(ScheduleTable /\ matches # <<>>) =>
        IF \A k \in 1..Len(matches) : matches[k].scheduled_time # NullTime
        THEN /\ reply'.msg = TableSent
             /\ \E s \in Orders(1..Len(matches)) :
                   reply'.rows = [i \in DOMAIN s |-> ScheduleRow(s[i])]
        ELSE reply'.msg = NoneFormat]_vars

-----------------------------------------------------------------------------
(* C30: report of league_bot.py.  A report (without league) between two     *)
(* distinct registered players succeeds: it inserts one completed row of    *)
(* matches, adds a win to the winner and a loss to the loser, and raises    *)
(* the winner's rating by the same positive amount by which it lowers the   *)
(* loser's.                                                                 *)
C30_Claimed ==
    [][\A u \in Users, o \in Users, res \in Results :
         (u # o /\ {u, o} \subseteq DOMAIN players /\ StandaloneReport(u, o, res, None))
         => LET winner_id == IF res = "win" THEN u ELSE o
                loser_id == IF res = "win" THEN o ELSE u
                d == players'[winner_id].elo_rating - players[winner_id].elo_rating
            IN  /\ Len(matches') = Len(matches) + 1
                /\ matches'[Len(matches')].status = "completed"
                /\ players'[winner_id].wins = players[winner_id].wins + 1
                /\ players'[loser_id].losses = players[loser_id].losses + 1
                /\ d > 0
                /\ players'[loser_id].elo_rating = players[loser_id].elo_rating - d]_vars

\* C30, what holds instead: a report of league_bot.py between two registered
\* players writes nothing and replies with the message of the TypeError
C30_NothingRecorded ==
    [][\A u \in Users, o \in Users, res \in Results :
         (u # o /\ {u, o} \subseteq DOMAIN players /\ StandaloneReport(u, o, res, None))
         => StoreUnchanged /\ reply'.msg = UnexpectedKeyword]_vars

====
